---- MODULE Spec2Model ----
(***************************************************************************)
(* A model of the LLM-as-a-Judge framework of src/llm_judge.py: the        *)
(* judgment operations of class LLMJudge (judge, judge_multiple,           *)
(* compare_responses), the parsing of the judge model's text and the       *)
(* pass/fail reconciliation.                                               *)
(*                                                                         *)
(* Python values are records tagged with the Python type name:             *)
(*   None -> [t |-> "NoneType"], True -> [t |-> "bool", b |-> TRUE],       *)
(*   90 -> [t |-> "int", n |-> 90], "ok" -> [t |-> "str", s |-> "ok"],     *)
(*   [..] -> [t |-> "list", a |-> <<..>>], {..} -> [t |-> "dict", m |-> f] *)
(* with f a function from the key strings to values.  A text received from *)
(* the judge model is [t |-> "str", toks |-> <<..>>]: the sequence of its  *)
(* lexical tokens; the text itself is the tokens joined by single spaces.  *)
(* The dictionaries the methods return are TLA+ records with the keys of   *)
(* the source.                                                             *)
(***************************************************************************)
EXTENDS Integers, Sequences, FiniteSets, TLC

VARIABLES op, pc, original_prompt, responses, judge_type, criteria,
          passing_score, idx, raw, judgment, verdict, results, calls, ret,
          rules, candidate, errors, parsed

vars == <<op, pc, original_prompt, responses, judge_type, criteria,
          passing_score, idx, raw, judgment, verdict, results, calls, ret,
          rules, candidate, errors, parsed>>

\* The state of a run of the validator chain, which no judgment touches.
chain_vars == <<rules, candidate, errors, parsed>>

\* The state of a judgment, which the validator chain does not touch.
judgment_vars == <<original_prompt, responses, judge_type, criteria,
                   passing_score, raw, judgment, verdict, results, calls>>

----------------------------------------------------------------------------
(* Python values *)

PyNone == [t |-> "NoneType"]
PyBool(b) == [t |-> "bool", b |-> b]
PyInt(n) == [t |-> "int", n |-> n]
PyStr(s) == [t |-> "str", s |-> s]
PyList(a) == [t |-> "list", a |-> a]
PyDict(m) == [t |-> "dict", m |-> m]
PyText(toks) == [t |-> "str", toks |-> toks]

\* A variable that holds no value yet.
Unset == [t |-> "unset"]

\* bool(v): Python truthiness, as used by `and` (line 234).
Truthy(v) ==
    CASE v.t = "NoneType" -> FALSE
      [] v.t = "bool" -> v.b
      [] v.t = "int" -> v.n # 0
      [] v.t = "str" -> IF "toks" \in DOMAIN v THEN v.toks # <<>> ELSE v.s # ""
      [] v.t = "list" -> v.a # <<>>
      [] v.t = "dict" -> DOMAIN v.m # {}

\* x and y (line 234): x when x is falsy, else y.
PyAnd(x, y) == IF Truthy(x) THEN y ELSE x

\* Whether v supports `>=` against an int: int and bool (a subclass of int).
IsNumber(v) == v.t \in {"int", "bool"}

\* The integer value of a number; True is 1 and False is 0.
NumVal(v) == IF v.t = "bool" THEN (IF v.b THEN 1 ELSE 0) ELSE v.n

----------------------------------------------------------------------------
(* Tokens of a text.  The string literals and the prose of the modelled     *)
(* texts hold no brace, so that the first { and the last } of a text are   *)
(* tokens of their own.                                                    *)

P(c) == [k |-> "punct", c |-> c]     \* one of { } [ ] , :
N(n) == [k |-> "num", n |-> n]       \* an integer literal
S(s) == [k |-> "string", s |-> s]    \* a double-quoted string literal
L(l) == [k |-> "lit", l |-> l]       \* true, false, null
W(w) == [k |-> "word", w |-> w]      \* a word of prose: no JSON token

IsP(tok, c) == tok.k = "punct" /\ tok.c = c

----------------------------------------------------------------------------
(* The characters of a text of tokens *)

\* The number of characters of a non-negative integer literal.
RECURSIVE Digits(_)
Digits(n) == IF n < 10 THEN 1 ELSE 1 + Digits(n \div 10)

\* The number of characters of a token.
TokLen(tok) ==
    CASE tok.k = "punct" -> 1
      [] tok.k = "num" -> IF tok.n < 0 THEN 1 + Digits(-tok.n) ELSE Digits(tok.n)
      [] tok.k = "string" -> Len(tok.s) + 2
      [] tok.k = "lit" -> Len(tok.l)
      [] tok.k = "word" -> Len(tok.w)

\* The 0-based index of the first character of token i, the tokens being
\* joined by single spaces; for i past the last token, the length of the text.
RECURSIVE TokOffset(_, _)
TokOffset(toks, i) ==
    IF i <= 1 \/ toks = <<>> THEN 0
    ELSE IF i > Len(toks) THEN TokOffset(toks, Len(toks)) + TokLen(toks[Len(toks)])
    ELSE TokOffset(toks, i - 1) + TokLen(toks[i - 1]) + 1

----------------------------------------------------------------------------
(* json.loads on a text: the JSON grammar over the tokens, with the error  *)
(* the decoder of Python 3.11 raises where the text is no JSON             *)

RECURSIVE ParseValue(_, _), ParseMembers(_, _, _), ParseElements(_, _, _)

\* The messages of json.JSONDecodeError.
ExpectingValue == "Expecting value"
ExpectingPropertyName == "Expecting property name enclosed in double quotes"
ExpectingColon == "Expecting ':' delimiter"
ExpectingComma == "Expecting ',' delimiter"
ExtraData == "Extra data"

\* JSONDecodeError(msg, doc, pos), raised at token i.
ParseError(msg, i) == [ok |-> FALSE, val |-> PyNone, nxt |-> 0, err |-> msg, at |-> i]

\* The value starting at token i (1-based), and the index after it.
ParseValue(toks, i) ==
    IF i > Len(toks) THEN ParseError(ExpectingValue, i)
    ELSE LET tok == toks[i] IN
      CASE tok.k = "num" -> [ok |-> TRUE, val |-> PyInt(tok.n), nxt |-> i + 1]
        [] tok.k = "string" -> [ok |-> TRUE, val |-> PyStr(tok.s), nxt |-> i + 1]
        [] tok.k = "lit" ->
             [ok |-> TRUE,
              val |-> CASE tok.l = "true" -> PyBool(TRUE)
                        [] tok.l = "false" -> PyBool(FALSE)
                        [] OTHER -> PyNone,
              nxt |-> i + 1]
        [] tok.k = "punct" /\ tok.c = "{" ->
             IF i + 1 <= Len(toks) /\ IsP(toks[i + 1], "}")
             THEN [ok |-> TRUE, val |-> PyDict(<<>>), nxt |-> i + 2]
             ELSE ParseMembers(toks, i + 1, <<>>)
        [] tok.k = "punct" /\ tok.c = "[" ->
             IF i + 1 <= Len(toks) /\ IsP(toks[i + 1], "]")
             THEN [ok |-> TRUE, val |-> PyList(<<>>), nxt |-> i + 2]
             ELSE ParseElements(toks, i + 1, <<>>)
        [] OTHER -> ParseError(ExpectingValue, i)

\* The members of an object from token i on: "key" : value, then , or }.
\* A repeated key keeps its last value, as a Python dict does.
ParseMembers(toks, i, m) ==
    IF i > Len(toks) \/ toks[i].k # "string"
    THEN ParseError(ExpectingPropertyName, i)
    ELSE IF i + 1 > Len(toks) \/ ~IsP(toks[i + 1], ":")
    THEN ParseError(ExpectingColon, i + 1)
    ELSE LET key == toks[i].s
             r == ParseValue(toks, i + 2)
             m2 == [x \in DOMAIN m \cup {key} |-> IF x = key THEN r.val ELSE m[x]]
         IN IF ~r.ok THEN r
            ELSE IF r.nxt <= Len(toks) /\ IsP(toks[r.nxt], "}")
              THEN [ok |-> TRUE, val |-> PyDict(m2), nxt |-> r.nxt + 1]
            ELSE IF r.nxt <= Len(toks) /\ IsP(toks[r.nxt], ",")
              THEN ParseMembers(toks, r.nxt + 1, m2)
            ELSE ParseError(ExpectingComma, r.nxt)

\* The elements of an array from token i on: value, then , or ].
ParseElements(toks, i, a) ==
    LET r == ParseValue(toks, i) IN
      IF ~r.ok THEN r
      ELSE IF r.nxt <= Len(toks) /\ IsP(toks[r.nxt], "]")
        THEN [ok |-> TRUE, val |-> PyList(Append(a, r.val)), nxt |-> r.nxt + 1]
      ELSE IF r.nxt <= Len(toks) /\ IsP(toks[r.nxt], ",")
        THEN ParseElements(toks, r.nxt + 1, Append(a, r.val))
      ELSE ParseError(ExpectingComma, r.nxt)

\* str(e) of a JSONDecodeError raised at the character pos of a one-line text.
DecodeErrorMessage(msg, pos) ==
    msg \o ": line 1 column " \o ToString(pos + 1) \o " (char " \o ToString(pos) \o ")"

\* json.loads(text): one value and nothing after it; ok = FALSE stands for
\* json.JSONDecodeError, with its message.
json_loads(text) ==
    LET r == ParseValue(text.toks, 1) IN
      IF r.ok /\ r.nxt = Len(text.toks) + 1
      THEN [ok |-> TRUE, val |-> r.val, msg |-> ""]
      ELSE IF r.ok
      THEN [ok |-> FALSE, val |-> PyNone,
            msg |-> DecodeErrorMessage(ExtraData, TokOffset(text.toks, r.nxt))]
      ELSE [ok |-> FALSE, val |-> PyNone,
            msg |-> DecodeErrorMessage(r.err, TokOffset(text.toks, r.at))]

----------------------------------------------------------------------------
(* str.find / str.rfind for a brace, as 0-based token indices; -1 if absent *)

find(text, c) ==
    IF \E i \in 1..Len(text.toks) : IsP(text.toks[i], c)
    THEN (CHOOSE i \in 1..Len(text.toks) :
            /\ IsP(text.toks[i], c)
            /\ \A j \in 1..(i - 1) : ~IsP(text.toks[j], c)) - 1
    ELSE -1

rfind(text, c) ==
    IF \E i \in 1..Len(text.toks) : IsP(text.toks[i], c)
    THEN (CHOOSE i \in 1..Len(text.toks) :
            /\ IsP(text.toks[i], c)
            /\ \A j \in (i + 1)..Len(text.toks) : ~IsP(text.toks[j], c)) - 1
    ELSE -1

\* text[start:end] for 0 <= start < end <= len(text).
Slice(text, start, end) == PyText(SubSeq(text.toks, start + 1, end))

----------------------------------------------------------------------------
(* LLMJudge._get_judge_prompt *)

JudgeTypes == {"quality", "correctness", "appropriateness", "comprehensiveness", "custom"}

\* The formatted prompt: the template selected by the judge type with its
\* placeholders filled; only the custom template has a {criteria} placeholder.
\* exc = TRUE stands for the ValueError of line 170.
get_judge_prompt(prompt, response, jtype, crit) ==
    IF jtype = "custom"
    THEN IF ~Truthy(crit)
         THEN [exc |-> TRUE, msg |-> "Custom judge type requires criteria to be provided",
               val |-> <<>>]
         ELSE [exc |-> FALSE, msg |-> "", val |-> <<jtype, prompt, response, crit.s>>]
    ELSE [exc |-> FALSE, msg |-> "", val |-> <<jtype, prompt, response>>]

----------------------------------------------------------------------------
(* LLMJudge._extract_json_from_text *)

\* A bug: the basic structure carries no opinion of its own.
DefaultStructure_no_passed(text) ==
    PyDict([score |-> PyInt(0),
            feedback |-> PyStr("Failed to parse judge response"),
            raw_text |-> text])

\* The basic structure returned when no JSON object can be extracted.
DefaultStructure(text) ==
    PyDict([score |-> PyInt(0),
            passed |-> PyBool(FALSE),
            feedback |-> PyStr("Failed to parse judge response"),
            raw_text |-> text])

\* Whether the substring from the first { to the last } exists and parses.
ExtractParses(text) ==
    LET start == find(text, "{")
        end == rfind(text, "}") + 1
    IN start # -1 /\ end > start /\ json_loads(Slice(text, start, end)).ok

\* A bug: the slice stops before the last closing brace (end = rfind('}')).
extract_json_from_text_exclusive(text) ==
    LET start == find(text, "{")
        end == rfind(text, "}")
    IN IF start # -1 /\ end > start /\ json_loads(Slice(text, start, end)).ok
       THEN json_loads(Slice(text, start, end)).val
       ELSE DefaultStructure(text)

extract_json_from_text(text) ==
    LET start == find(text, "{")
        end == rfind(text, "}") + 1
    IN IF start # -1 /\ end > start /\ json_loads(Slice(text, start, end)).ok
       THEN json_loads(Slice(text, start, end)).val
       ELSE DefaultStructure(text)

----------------------------------------------------------------------------
(* LLMJudge.judge, lines 231-250: reconciliation and the except clause *)

\* dict.get(key, default)
Get(d, key, default) == IF key \in DOMAIN d.m THEN d.m[key] ELSE default

\* A bug: the except clause reports the failure without failing the verdict.
ExceptVerdict_no_fail(msg) == [error |-> msg]

\* The dictionary returned by the except clause.
ExceptVerdict(msg) == [error |-> msg, passed |-> PyBool(FALSE), score |-> PyInt(0)]

\* str(e) of the AttributeError raised by .get on a value that is no dict.
NoGetMessage(v) ==
    CASE v.t = "list" -> "'list' object has no attribute 'get'"
      [] v.t = "int" -> "'int' object has no attribute 'get'"
      [] v.t = "str" -> "'str' object has no attribute 'get'"
      [] v.t = "bool" -> "'bool' object has no attribute 'get'"
      [] OTHER -> "'NoneType' object has no attribute 'get'"

\* str(e) of the TypeError raised by score >= passing_score.
NotComparableMessage(v) ==
    CASE v.t = "str" -> "'>=' not supported between instances of 'str' and 'int'"
      [] v.t = "list" -> "'>=' not supported between instances of 'list' and 'int'"
      [] v.t = "dict" -> "'>=' not supported between instances of 'dict' and 'int'"
      [] OTHER -> "'>=' not supported between instances of 'NoneType' and 'int'"

\* str(e) of the TypeError raised by json.loads(None).
LoadsNoneMessage == "the JSON object must be str, bytes or bytearray, not NoneType"

\* score = judgment.get("score", 0)
score(j) == Get(j, "score", PyInt(0))

\* score >= passing_score, for a score that is a number
meets_threshold(j, ps) == NumVal(score(j)) >= ps

\* A bug: an absent opinion counts as a failing one.
judgment_passed_default_false(j, ps) == Get(j, "passed", PyBool(FALSE))

\* judgment_passed = judgment.get("passed", score >= passing_score)
judgment_passed(j, ps) == Get(j, "passed", PyBool(meets_threshold(j, ps)))

\* A bug: the verdict is the judge's opinion alone, without the threshold.
final_passed_opinion_only(j, ps) == judgment_passed(j, ps)

\* A bug: `or` in the place of `and`.
final_passed_or(j, ps) ==
    IF Truthy(judgment_passed(j, ps)) THEN judgment_passed(j, ps)
    ELSE PyBool(meets_threshold(j, ps))

\* final_passed = judgment_passed and (score >= passing_score)
final_passed(j, ps) == PyAnd(judgment_passed(j, ps), PyBool(meets_threshold(j, ps)))

\* A bug: a judgment that is no dict is reconciled as an empty one.
reconcile_non_dict_as_empty(j, rawtext, jtype, ps) ==
    LET d == IF j.t # "dict" THEN PyDict(<<>>) ELSE j IN
      IF ~IsNumber(score(d)) THEN ExceptVerdict(NotComparableMessage(score(d)))
      ELSE [judgment |-> d,
            raw_response |-> rawtext,
            passed |-> final_passed(d, ps),
            score |-> score(d),
            judge_type |-> jtype,
            feedback |-> Get(d, "feedback", PyStr(""))]

\* Lines 232-250 on a parsed judgment j: the returned dictionary.  A judgment
\* that is no dict has no .get, and a score that is no number cannot be
\* compared to passing_score: both raise into the except clause.
reconcile(j, rawtext, jtype, ps) ==
    IF j.t # "dict" THEN ExceptVerdict(NoGetMessage(j))
    ELSE IF ~IsNumber(score(j)) THEN ExceptVerdict(NotComparableMessage(score(j)))
    ELSE [judgment |-> j,
          raw_response |-> rawtext,
          passed |-> final_passed(j, ps),
          score |-> score(j),
          judge_type |-> jtype,
          feedback |-> Get(j, "feedback", PyStr(""))]

----------------------------------------------------------------------------
(* The arguments of the calls and the replies of the judge model *)

\* The longest list of responses given to judge_multiple.
MaxResponses == 2

OriginalPrompts == {"What is Python?"}
Responses == {"Python is a programming language.", "Python is a snake."}
CriteriaValues == {PyNone, PyStr(""), PyStr("Be concise")}
PassingScores == {-10, 0, 70}

\* judge_type and criteria: criteria is read only by the custom template.
TypeAndCriteria ==
    {<<jt, PyNone>> : jt \in JudgeTypes} \cup {<<"custom", c>> : c \in CriteriaValues}

ResponseLists == UNION {[1..n -> Responses] : n \in 0..MaxResponses}

RECURSIVE JoinFields(_)
\* The members of an object, separated by commas.
JoinFields(fs) ==
    IF fs = <<>> THEN <<>>
    ELSE IF Len(fs) = 1 THEN fs[1]
    ELSE fs[1] \o <<P(",")>> \o JoinFields(Tail(fs))

Field(key, tok) == <<S(key), P(":"), tok>>
Obj(fs) == <<P("{")>> \o JoinFields(fs) \o <<P("}")>>
InProse(toks) == <<W("Here is my answer:")>> \o toks \o <<W("Thanks!")>>

ScoreOpts ==
    {<<>>} \cup {<<Field("score", v)>> :
                   v \in {N(-20), N(0), N(50), N(70), N(85), S("85"), L("null"), L("true")}}
PassedOpts ==
    {<<>>} \cup {<<Field("passed", v)>> :
                   v \in {L("true"), L("false"), L("null"), S("yes"), N(1)}}
FeedbackOpts == {<<>>, <<Field("feedback", S("Good answer"))>>}

\* The JSON objects a judge may answer with.
JudgeObjects == {Obj(so \o po \o fo) : so \in ScoreOpts, po \in PassedOpts, fo \in FeedbackOpts}

\* The example of the fallback parse: an object between two pieces of prose.
Score90 == Obj(<<Field("score", N(90)), Field("passed", L("true"))>>)
WrappedExample == InProse(Score90)

\* Texts that are no single JSON object.
OtherTexts ==
    { <<>>,
      <<W("I cannot judge this.")>>,
      <<P("{")>>,
      <<P("}")>>,
      <<P("}"), W("or"), P("{")>>,
      <<P("{"), S("score"), P(":"), N(90)>>,
      <<P("{"), S("score"), P(":"), N(90), P(","), P("}")>>,
      <<P("{"), W("score"), P(":"), N(90), P("}")>>,
      <<P("["), P("]")>>,
      <<P("[")>> \o Score90 \o <<P("]")>>,
      <<W("Result:"), P("[")>> \o Score90 \o <<P("]"), W("done")>>,
      <<N(90)>>,
      <<S("pass")>>,
      <<L("null")>>,
      <<L("true")>>,
      Score90,
      Score90 \o <<P("}")>>,
      <<P("{")>> \o Score90,
      Score90 \o Score90,
      Score90 \o <<W("versus")>> \o Obj(<<Field("score", N(10))>>),
      Obj(<<Field("score", N(10)), Field("score", N(90))>>),
      Obj(<<Field("score", N(90)), <<S("details"), P(":")>> \o Obj(<<Field("depth", N(3))>>)>>),
      Obj(<<Field("score", N(90)), <<S("strengths"), P(":"), P("["), S("clear"), P(","), S("short"), P("]")>>>>),
      Obj(<<Field("score", N(90)), <<S("strengths"), P(":"), P("["), S("clear"), P(","), P("]")>>>>)
    }

JudgeTexts ==
    JudgeObjects \cup {InProse(o) : o \in JudgeObjects} \cup OtherTexts \cup {WrappedExample}

\* message.content of a completion: a text or None.
JudgeContents == {PyNone} \cup {PyText(toks) : toks \in JudgeTexts}

\* The replies to the calls of judge_multiple: one text for each way a
\* judgment can end.
BatchContents ==
    { PyNone,
      PyText(Score90),
      PyText(WrappedExample),
      PyText(Obj(<<Field("score", N(50)), Field("passed", L("true"))>>)),
      PyText(<<W("I cannot judge this.")>>),
      PyText(<<P("["), P("]")>>) }

\* str(e) of a failing call to the judge model.
FailureMessages == {"Connection error.", "Rate limit exceeded"}

----------------------------------------------------------------------------
(* LLMJudge.compare_responses: prompt, result and replies *)

\* The criteria used when comparison_criteria is None or empty (lines 320-325).
DefaultComparisonCriteria == "Compare these two responses and determine which is better based on: ..."

\* criteria = comparison_criteria or <default>; the f-string of lines 327-350.
comparison_prompt(prompt, r1, r2, cc) ==
    <<"compare", prompt, r1, r2, IF Truthy(cc) THEN cc.s ELSE DefaultComparisonCriteria>>

\* A bug: the except clause of compare_responses names no winner.
CompareExcept_no_winner(msg) == [error |-> msg]

\* The dictionary returned by the except clause of compare_responses.
CompareExcept(msg) == [error |-> msg, winner |-> PyNone]


\* Lines 366-378 on the parsed comparison: the returned dictionary.
compare_result(comparison, rawtext) ==
    IF comparison.t # "dict" THEN CompareExcept(NoGetMessage(comparison))
    ELSE [comparison |-> comparison,
          raw_response |-> rawtext,
          winner |-> Get(comparison, "winner", PyNone),
          response1_score |-> Get(comparison, "response1_score", PyInt(0)),
          response2_score |-> Get(comparison, "response2_score", PyInt(0))]

WinnerOpts ==
    {<<>>} \cup {<<Field("winner", v)>> : v \in {N(1), N(2), N(3), S("1"), L("null")}}
Score1Opts == {<<>>, <<Field("response1_score", N(80))>>}
Score2Opts == {<<>>, <<Field("response2_score", N(60))>>}

\* The JSON objects a judge may answer a comparison with.
CompareObjects == {Obj(w \o s1 \o s2) : w \in WinnerOpts, s1 \in Score1Opts, s2 \in Score2Opts}

CompareTexts ==
    CompareObjects \cup {InProse(o) : o \in CompareObjects} \cup OtherTexts

CompareContents == {PyNone} \cup {PyText(toks) : toks \in CompareTexts}

----------------------------------------------------------------------------
(* The state machine *)

\* pc is the position of the running operation:
\*   idle           no operation was called yet
\*   loop           judge_multiple, at the head of its for loop
\*   pending        judge or compare_responses entered, no request made yet
\*   requested      the call to the judge model is made and has not returned
\*   replied        raw_judgment / raw_comparison is assigned
\*   strict_failed  json.loads raised JSONDecodeError (line 227)
\*   parsed_strict, parsed_fallback, parse_failed   the judgment is assigned
\*   reconciled     judge reached its return of lines 236-243
\*   failed         judge reached its return of lines 246-250
\*   done           the operation returned ret to its caller

Init ==
    /\ op = "none"
    /\ pc = "idle"
    /\ original_prompt = ""
    /\ responses = <<>>
    /\ judge_type = ""
    /\ criteria = PyNone
    /\ passing_score = 0
    /\ idx = 0
    /\ raw = Unset
    /\ judgment = Unset
    /\ verdict = Unset
    /\ results = <<>>
    /\ calls = <<>>
    /\ ret = Unset
    /\ rules = <<>>
    /\ candidate = Unset
    /\ errors = <<>>
    /\ parsed = Unset

\* A caller calls judge(original_prompt, response, judge_type, criteria, passing_score).
judge_call(p, r, jt, c, ps) ==
    /\ pc = "idle"
    /\ op' = "judge"
    /\ pc' = "pending"
    /\ original_prompt' = p
    /\ responses' = <<r>>
    /\ judge_type' = jt
    /\ criteria' = c
    /\ passing_score' = ps
    /\ idx' = 1
    /\ UNCHANGED <<raw, judgment, verdict, results, calls, ret>>
    /\ UNCHANGED chain_vars

\* A caller calls judge_multiple(original_prompt, responses, ...): results = [].
judge_multiple_call(p, rs, jt, c, ps) ==
    /\ pc = "idle"
    /\ op' = "judge_multiple"
    /\ pc' = "loop"
    /\ original_prompt' = p
    /\ responses' = rs
    /\ judge_type' = jt
    /\ criteria' = c
    /\ passing_score' = ps
    /\ idx' = 0
    /\ results' = <<>>
    /\ UNCHANGED <<raw, judgment, verdict, calls, ret>>
    /\ UNCHANGED chain_vars

\* for response in responses: the next response is passed to judge.
loop_next ==
    /\ pc = "loop"
    /\ idx < Len(responses)
    /\ idx' = idx + 1
    /\ pc' = "pending"
    /\ UNCHANGED <<op, original_prompt, responses, judge_type, criteria,
                   passing_score, raw, judgment, verdict, results, calls, ret>>
    /\ UNCHANGED chain_vars

\* The loop is exhausted: return results.
loop_exit ==
    /\ pc = "loop"
    /\ idx = Len(responses)
    /\ ret' = results
    /\ pc' = "done"
    /\ UNCHANGED <<op, original_prompt, responses, judge_type, criteria,
                   passing_score, idx, raw, judgment, verdict, results, calls>>
    /\ UNCHANGED chain_vars

\* judge, lines 205-220: build the prompt and call the judge model.  The
\* ValueError of _get_judge_prompt is raised inside the try block.
judge_request ==
    /\ pc = "pending"
    /\ op \in {"judge", "judge_multiple"}
    /\ LET pr == get_judge_prompt(original_prompt, responses[idx], judge_type, criteria)
       IN IF pr.exc
          THEN /\ verdict' = ExceptVerdict(pr.msg)
               /\ pc' = "failed"
               /\ UNCHANGED calls
          ELSE /\ calls' = Append(calls, [prompt |-> pr.val, reply |-> Unset])
               /\ pc' = "requested"
               /\ UNCHANGED verdict
    /\ UNCHANGED <<op, original_prompt, responses, judge_type, criteria,
                   passing_score, idx, raw, judgment, results, ret>>
    /\ UNCHANGED chain_vars

\* The reply of the last call, recorded in the log of calls.
Answered(log, reply) == [log EXCEPT ![Len(log)].reply = reply]

\* The call returns a completion: raw_judgment = ...message.content (line 222).
judge_model_returns(content) ==
    /\ pc = "requested"
    /\ op \in {"judge", "judge_multiple"}
    /\ raw' = content
    /\ calls' = Answered(calls, [kind |-> "content", content |-> content])
    /\ pc' = "replied"
    /\ UNCHANGED <<op, original_prompt, responses, judge_type, criteria,
                   passing_score, idx, judgment, verdict, results, ret>>
    /\ UNCHANGED chain_vars

\* A bug: a failed call is tried again.
judge_model_raises_retries(msg) ==
    /\ pc = "requested"
    /\ op \in {"judge", "judge_multiple"}
    /\ calls' = Answered(calls, [kind |-> "raise", msg |-> msg])
    /\ pc' = "pending"
    /\ UNCHANGED <<op, original_prompt, responses, judge_type, criteria,
                   passing_score, idx, raw, judgment, verdict, results, ret>>
    /\ UNCHANGED chain_vars

\* The call raises: the except clause returns the error dictionary.
judge_model_raises(msg) ==
    /\ pc = "requested"
    /\ op \in {"judge", "judge_multiple"}
    /\ calls' = Answered(calls, [kind |-> "raise", msg |-> msg])
    /\ verdict' = ExceptVerdict(msg)
    /\ pc' = "failed"
    /\ UNCHANGED <<op, original_prompt, responses, judge_type, criteria,
                   passing_score, idx, raw, judgment, results, ret>>
    /\ UNCHANGED chain_vars

\* Lines 225-227: json.loads(raw_judgment).  None raises TypeError, which only
\* the outer except clause catches.
judge_parse_strict ==
    /\ pc = "replied"
    /\ op \in {"judge", "judge_multiple"}
    /\ IF raw = PyNone
       THEN /\ verdict' = ExceptVerdict(LoadsNoneMessage)
            /\ pc' = "failed"
            /\ UNCHANGED judgment
       ELSE IF json_loads(raw).ok
       THEN /\ judgment' = json_loads(raw).val
            /\ pc' = "parsed_strict"
            /\ UNCHANGED verdict
       ELSE /\ pc' = "strict_failed"
            /\ UNCHANGED <<judgment, verdict>>
    /\ UNCHANGED <<op, original_prompt, responses, judge_type, criteria,
                   passing_score, idx, raw, results, calls, ret>>
    /\ UNCHANGED chain_vars

\* A bug: the extraction is tried on the reply without the strict parse
\* having failed.
judge_parse_fallback_unconditional ==
    /\ pc \in {"replied", "strict_failed"}
    /\ op \in {"judge", "judge_multiple"}
    /\ raw # PyNone
    /\ judgment' = extract_json_from_text(raw)
    /\ pc' = IF ExtractParses(raw) THEN "parsed_fallback" ELSE "parse_failed"
    /\ UNCHANGED <<op, original_prompt, responses, judge_type, criteria,
                   passing_score, idx, raw, verdict, results, calls, ret>>
    /\ UNCHANGED chain_vars

\* Lines 227-229: the fallback after JSONDecodeError.
judge_parse_fallback ==
    /\ pc = "strict_failed"
    /\ judgment' = extract_json_from_text(raw)
    /\ pc' = IF ExtractParses(raw) THEN "parsed_fallback" ELSE "parse_failed"
    /\ UNCHANGED <<op, original_prompt, responses, judge_type, criteria,
                   passing_score, idx, raw, verdict, results, calls, ret>>
    /\ UNCHANGED chain_vars

\* Lines 231-250: the reconciliation, or the except clause when it raises.
judge_reconcile ==
    /\ pc \in {"parsed_strict", "parsed_fallback", "parse_failed"}
    /\ op \in {"judge", "judge_multiple"}
    /\ verdict' = reconcile(judgment, raw, judge_type, passing_score)
    /\ pc' = IF "error" \in DOMAIN verdict' THEN "failed" ELSE "reconciled"
    /\ UNCHANGED <<op, original_prompt, responses, judge_type, criteria,
                   passing_score, idx, raw, judgment, results, calls, ret>>
    /\ UNCHANGED chain_vars

\* judge returns its dictionary to the caller.
judge_return ==
    /\ pc \in {"reconciled", "failed"}
    /\ op = "judge"
    /\ ret' = verdict
    /\ pc' = "done"
    /\ UNCHANGED <<op, original_prompt, responses, judge_type, criteria,
                   passing_score, idx, raw, judgment, verdict, results, calls>>
    /\ UNCHANGED chain_vars

\* A bug: a failed judgment is dropped from the results.
loop_append_skips_failed ==
    /\ pc \in {"reconciled", "failed"}
    /\ op = "judge_multiple"
    /\ results' = IF pc = "failed" THEN results ELSE Append(results, verdict)
    /\ pc' = "loop"
    /\ raw' = Unset
    /\ judgment' = Unset
    /\ verdict' = Unset
    /\ UNCHANGED <<op, original_prompt, responses, judge_type, criteria,
                   passing_score, idx, calls, ret>>
    /\ UNCHANGED chain_vars

\* judge returns into the loop of judge_multiple: results.append(result).
loop_append ==
    /\ pc \in {"reconciled", "failed"}
    /\ op = "judge_multiple"
    /\ results' = Append(results, verdict)
    /\ pc' = "loop"
    /\ raw' = Unset
    /\ judgment' = Unset
    /\ verdict' = Unset
    /\ UNCHANGED <<op, original_prompt, responses, judge_type, criteria,
                   passing_score, idx, calls, ret>>
    /\ UNCHANGED chain_vars

\* A caller calls compare_responses(original_prompt, response1, response2,
\* comparison_criteria).
compare_call(p, r1, r2, cc) ==
    /\ pc = "idle"
    /\ op' = "compare_responses"
    /\ pc' = "pending"
    /\ original_prompt' = p
    /\ responses' = <<r1, r2>>
    /\ criteria' = cc
    /\ UNCHANGED <<judge_type, passing_score, idx, raw, judgment, verdict, results, calls, ret>>
    /\ UNCHANGED chain_vars

\* Lines 320-361: build the comparison prompt and call the judge model.
compare_request ==
    /\ pc = "pending"
    /\ op = "compare_responses"
    /\ calls' = Append(calls,
                       [prompt |-> comparison_prompt(original_prompt, responses[1],
                                                     responses[2], criteria),
                        reply |-> Unset])
    /\ pc' = "requested"
    /\ UNCHANGED <<op, original_prompt, responses, judge_type, criteria,
                   passing_score, idx, raw, judgment, verdict, results, ret>>
    /\ UNCHANGED chain_vars

\* The call returns a completion: raw_comparison = ...message.content (line 363).
compare_model_returns(content) ==
    /\ pc = "requested"
    /\ op = "compare_responses"
    /\ raw' = content
    /\ calls' = Answered(calls, [kind |-> "content", content |-> content])
    /\ pc' = "replied"
    /\ UNCHANGED <<op, original_prompt, responses, judge_type, criteria,
                   passing_score, idx, judgment, verdict, results, ret>>
    /\ UNCHANGED chain_vars

\* The call raises: the except clause returns the error dictionary.
compare_model_raises(msg) ==
    /\ pc = "requested"
    /\ op = "compare_responses"
    /\ calls' = Answered(calls, [kind |-> "raise", msg |-> msg])
    /\ verdict' = CompareExcept(msg)
    /\ pc' = "failed"
    /\ UNCHANGED <<op, original_prompt, responses, judge_type, criteria,
                   passing_score, idx, raw, judgment, results, ret>>
    /\ UNCHANGED chain_vars

\* Line 364: comparison = json.loads(raw_comparison).  Every exception,
\* JSONDecodeError included, goes to the except clause of line 374.
compare_parse ==
    /\ pc = "replied"
    /\ op = "compare_responses"
    /\ IF raw = PyNone
       THEN /\ verdict' = CompareExcept(LoadsNoneMessage)
            /\ pc' = "failed"
            /\ UNCHANGED judgment
       ELSE IF json_loads(raw).ok
       THEN /\ judgment' = json_loads(raw).val
            /\ pc' = "parsed_strict"
            /\ UNCHANGED verdict
       ELSE /\ verdict' = CompareExcept(json_loads(raw).msg)
            /\ pc' = "failed"
            /\ UNCHANGED judgment
    /\ UNCHANGED <<op, original_prompt, responses, judge_type, criteria,
                   passing_score, idx, raw, results, calls, ret>>
    /\ UNCHANGED chain_vars

\* Lines 366-378: build the result, or the except clause when .get raises.
compare_reconcile ==
    /\ pc = "parsed_strict"
    /\ op = "compare_responses"
    /\ verdict' = compare_result(judgment, raw)
    /\ pc' = IF "error" \in DOMAIN verdict' THEN "failed" ELSE "reconciled"
    /\ UNCHANGED <<op, original_prompt, responses, judge_type, criteria,
                   passing_score, idx, raw, judgment, results, calls, ret>>
    /\ UNCHANGED chain_vars

\* compare_responses returns its dictionary to the caller.
compare_return ==
    /\ pc \in {"reconciled", "failed"}
    /\ op = "compare_responses"
    /\ ret' = verdict
    /\ pc' = "done"
    /\ UNCHANGED <<op, original_prompt, responses, judge_type, criteria,
                   passing_score, idx, raw, judgment, verdict, results, calls>>
    /\ UNCHANGED chain_vars

Next ==
    \/ \E p \in OriginalPrompts, r \in Responses, tc \in TypeAndCriteria, ps \in PassingScores :
         judge_call(p, r, tc[1], tc[2], ps)
    \/ \E p \in OriginalPrompts, rs \in ResponseLists, tc \in TypeAndCriteria, ps \in PassingScores :
         judge_multiple_call(p, rs, tc[1], tc[2], ps)
    \/ loop_next
    \/ loop_exit
    \/ judge_request
    \/ \E c \in JudgeContents : op = "judge" /\ judge_model_returns(c)
    \/ \E c \in BatchContents : op = "judge_multiple" /\ judge_model_returns(c)
    \/ \E m \in FailureMessages : judge_model_raises(m)
    \/ judge_parse_strict
    \/ judge_parse_fallback
    \/ judge_reconcile
    \/ judge_return
    \/ loop_append
    \/ \E p \in OriginalPrompts, r1 \in Responses, r2 \in Responses, cc \in CriteriaValues :
         compare_call(p, r1, r2, cc)
    \/ compare_request
    \/ \E c \in CompareContents : compare_model_returns(c)
    \/ \E m \in FailureMessages : compare_model_raises(m)
    \/ compare_parse
    \/ compare_reconcile
    \/ compare_return

Spec == Init /\ [][Next]_vars

\* One judgment at a time: judge and compare_responses without the loop of
\* judge_multiple.
JudgmentStart ==
    \/ \E p \in OriginalPrompts, r \in Responses, tc \in TypeAndCriteria, ps \in PassingScores :
         judge_call(p, r, tc[1], tc[2], ps)
    \/ \E p \in OriginalPrompts, r1 \in Responses, r2 \in Responses, cc \in CriteriaValues :
         compare_call(p, r1, r2, cc)

\* The replies to judge under JudgmentSpec: those of BatchContents, which
\* end in a verdict after the strict parse, after the fallback and after
\* both have failed, or in the except clause for a reply of None; and one
\* whose object the fallback extracts and whose score, a string, makes the
\* reconciliation raise.
JudgmentReplies ==
    BatchContents \cup {PyText(InProse(Obj(<<Field("score", S("85"))>>)))}

\* The steps of a started judgment.  The body of each method is straight-line
\* code, and the judge model either returns a completion or raises.
JudgmentProgress ==
    \/ judge_request
    \/ pc = "requested" /\ op = "judge" /\ \E c \in JudgmentReplies : judge_model_returns(c)
    \/ pc = "requested" /\ \E m \in FailureMessages : judge_model_raises(m)
    \/ judge_parse_strict
    \/ judge_parse_fallback
    \/ judge_reconcile
    \/ judge_return
    \/ compare_request
    \/ pc = "requested" /\ \E c \in CompareContents : compare_model_returns(c)
    \/ pc = "requested" /\ \E m \in FailureMessages : compare_model_raises(m)
    \/ compare_parse
    \/ compare_reconcile
    \/ compare_return

JudgmentNext == JudgmentStart \/ JudgmentProgress

\* A started method runs on until it returns: no step of it waits for
\* anything but the reply of the judge model, which comes or fails.
JudgmentSpec == Init /\ [][JudgmentNext]_vars /\ WF_vars(JudgmentProgress)

----------------------------------------------------------------------------
(* The validator chain: module llm_validator, as validation_examples.py     *)
(* uses it.  A candidate text is a Python str given by its characters,     *)
(* [t |-> "str", chars |-> <<..>>].  The texts hold no backslash, and their *)
(* JSON numbers are integers.                                               *)

PyChars(cs) == [t |-> "str", chars |-> cs]

NotEmptyValidator == [kind |-> "NotEmptyValidator"]
LengthValidator(min_length, max_length) ==
    [kind |-> "LengthValidator", min_length |-> min_length, max_length |-> max_length]
JSONValidator == [kind |-> "JSONValidator"]
\* key_types is the sequence of the pairs <<key, type name>> of the mapping.
JSONSchemaValidator(required_keys, key_types) ==
    [kind |-> "JSONSchemaValidator", required_keys |-> required_keys, key_types |-> key_types]
ContainsValidator(keywords, case_sensitive, all_required) ==
    [kind |-> "ContainsValidator", keywords |-> keywords,
     case_sensitive |-> case_sensitive, all_required |-> all_required]
RegexValidator(pattern, flags) ==
    [kind |-> "RegexValidator", pattern |-> pattern, flags |-> flags]
CustomValidator(fn) == [kind |-> "CustomValidator", fn |-> fn]

\* The outcomes of one rule: it passes, it fails with a message, or it raises.
RulePass == [status |-> "pass", msg |-> ""]
RuleFail(msg) == [status |-> "fail", msg |-> msg]
RuleRaise(msg) == [status |-> "raise", msg |-> msg]

(* Characters *)

Whitespace == {" ", "\t", "\n", "\r"}
UpperLetters ==
    <<"A", "B", "C", "D", "E", "F", "G", "H", "I", "J", "K", "L", "M",
      "N", "O", "P", "Q", "R", "S", "T", "U", "V", "W", "X", "Y", "Z">>
LowerLetters ==
    <<"a", "b", "c", "d", "e", "f", "g", "h", "i", "j", "k", "l", "m",
      "n", "o", "p", "q", "r", "s", "t", "u", "v", "w", "x", "y", "z">>
DigitChars == <<"0", "1", "2", "3", "4", "5", "6", "7", "8", "9">>

\* The set of the elements of a sequence.
Range(seq) == {seq[i] : i \in DOMAIN seq}

\* The least member of a non-empty set of indices.
Least(indices) == CHOOSE i \in indices : \A j \in indices : i <= j

\* The index of an element in a sequence that holds it once.
IndexIn(seq, x) == CHOOSE i \in DOMAIN seq : seq[i] = x

\* str.lower, on the ASCII letters.
LowerChar(c) == IF c \in Range(UpperLetters) THEN LowerLetters[IndexIn(UpperLetters, c)] ELSE c
Lower(cs) == [i \in 1..Len(cs) |-> LowerChar(cs[i])]

\* needle in hay, for two sequences of characters.
IsSubstring(needle, hay) ==
    \E k \in 0..(Len(hay) - Len(needle)) :
        \A i \in 1..Len(needle) : hay[k + i] = needle[i]

\* The string of a sequence of characters.
RECURSIVE Join(_)
Join(cs) == IF cs = <<>> THEN "" ELSE Head(cs) \o Join(Tail(cs))

(* The tokens of a candidate text, for json.loads *)

\* The value of a run of digits.
RECURSIVE NumOf(_)
NumOf(ds) ==
    IF ds = <<>> THEN 0
    ELSE 10 * NumOf(SubSeq(ds, 1, Len(ds) - 1)) + (IndexIn(DigitChars, ds[Len(ds)]) - 1)

\* The index of the last digit of the integer literal whose digits start at
\* i: a single 0, or a run of digits that does not start with 0.
EndOfDigits(cs, i) ==
    IF cs[i] = "0" THEN i
    ELSE Least({j \in i..Len(cs) :
                  j = Len(cs) \/ cs[j + 1] \notin Range(DigitChars)})

\* Whether the characters from i on start with the given ones.
StartsWith(cs, i, word) ==
    i + Len(word) - 1 <= Len(cs) /\ SubSeq(cs, i, i + Len(word) - 1) = word

\* The tokens from character i on.  What is no JSON token ends the scan with
\* a word of prose, which no JSON grammar accepts.
RECURSIVE Lex(_, _)
Lex(cs, i) ==
    IF i > Len(cs) THEN <<>>
    ELSE LET c == cs[i]
             rest == <<W(Join(SubSeq(cs, i, Len(cs))))>>
         IN
      IF c \in Whitespace THEN Lex(cs, i + 1)
      ELSE IF c \in {"{", "}", "[", "]", ",", ":"} THEN <<P(c)>> \o Lex(cs, i + 1)
      ELSE IF c = "\"" THEN
        LET closing == {j \in (i + 1)..Len(cs) : cs[j] = "\""} IN
          IF closing = {} THEN rest
          ELSE LET j == Least(closing)
                   body == SubSeq(cs, i + 1, j - 1)
               IN IF Range(body) \cap {"\t", "\n", "\r"} # {} THEN rest
                  ELSE <<S(Join(body))>> \o Lex(cs, j + 1)
      ELSE IF c \in Range(DigitChars) THEN
        LET j == EndOfDigits(cs, i) IN
          <<N(NumOf(SubSeq(cs, i, j)))>> \o Lex(cs, j + 1)
      ELSE IF c = "-" /\ i < Len(cs) /\ cs[i + 1] \in Range(DigitChars) THEN
        LET j == EndOfDigits(cs, i + 1) IN
          <<N(0 - NumOf(SubSeq(cs, i + 1, j)))>> \o Lex(cs, j + 1)
      ELSE IF StartsWith(cs, i, <<"t", "r", "u", "e">>)
        THEN <<L("true")>> \o Lex(cs, i + 4)
      ELSE IF StartsWith(cs, i, <<"f", "a", "l", "s", "e">>)
        THEN <<L("false")>> \o Lex(cs, i + 5)
      ELSE IF StartsWith(cs, i, <<"n", "u", "l", "l">>)
        THEN <<L("null")>> \o Lex(cs, i + 4)
      ELSE rest

\* json.loads(text) for a candidate text: whether it parses, and the value.
\* The rules do not read the decoder's message.
loads_chars(text) ==
    LET r == json_loads(PyText(Lex(text.chars, 1))) IN [ok |-> r.ok, val |-> r.val]

(* The rules *)

\* not-empty: fails on empty or whitespace-only text.
not_empty(text) ==
    IF Range(text.chars) \subseteq Whitespace
    THEN RuleFail("Response is empty")
    ELSE RulePass

\* length-bound: fails when the length is under min or over max; either
\* bound may be None.
length_bound(rule, text) ==
    IF rule.min_length # PyNone /\ Len(text.chars) < rule.min_length.n
    THEN RuleFail("Response is too short")
    ELSE IF rule.max_length # PyNone /\ Len(text.chars) > rule.max_length.n
    THEN RuleFail("Response is too long")
    ELSE RulePass

\* well-formed-JSON: fails when the text does not parse as one JSON value.
well_formed_json(text) ==
    IF loads_chars(text).ok THEN RulePass ELSE RuleFail("Response is not valid JSON")

\* JSON-schema: uses the value the JSON rule stored, else parses the text
\* itself; fails when the value is no object, misses a required key, or has
\* a key whose value is not of the declared type.
json_schema(rule, text, stored) ==
    LET p == IF stored # Unset THEN [ok |-> TRUE, val |-> stored] ELSE loads_chars(text)
        missing == {i \in 1..Len(rule.required_keys) :
                      rule.required_keys[i] \notin DOMAIN p.val.m}
        mismatch == {i \in 1..Len(rule.key_types) :
                       /\ rule.key_types[i][1] \in DOMAIN p.val.m
                       /\ p.val.m[rule.key_types[i][1]].t # rule.key_types[i][2]}
    IN IF ~p.ok THEN RuleFail("Response is not valid JSON")
       ELSE IF p.val.t # "dict" THEN RuleFail("Response is not a JSON object")
       ELSE IF missing # {}
       THEN RuleFail("Missing required key: " \o rule.required_keys[Least(missing)])
       ELSE IF mismatch # {}
       THEN RuleFail("Wrong type for key: " \o rule.key_types[Least(mismatch)][1])
       ELSE RulePass

\* keyword in text, with or without regard to case.
ContainsWord(text, keyword, case_sensitive) ==
    IF case_sensitive THEN IsSubstring(keyword, text.chars)
    ELSE IsSubstring(Lower(keyword), Lower(text.chars))

\* keyword-containment: all of the keywords, or any of them.
contains(rule, text) ==
    LET Here(i) == ContainsWord(text, rule.keywords[i], rule.case_sensitive)
        found == IF rule.all_required
                 THEN \A i \in 1..Len(rule.keywords) : Here(i)
                 ELSE \E i \in 1..Len(rule.keywords) : Here(i)
    IN IF found THEN RulePass
       ELSE RuleFail("Response does not contain the required keywords")

\* The patterns of the model: the e-mail pattern of the examples, and one
\* that does not compile.
EmailPattern == "^[\\w\\.-]+@[\\w\\.-]+\\.\\w+$"
MalformedPattern == "("

\* \w on ASCII, and the class [\w\.-].
WordChars == Range(UpperLetters) \cup Range(LowerLetters) \cup Range(DigitChars) \cup {"_"}
WordDotDash == WordChars \cup {".", "-"}

\* The e-mail pattern under flags 0: one or more of [\w\.-], an @, one or
\* more of [\w\.-], a dot, one or more of \w, to the end of the text or to
\* the newline that ends it.
MatchesEmail(cs) ==
    LET n == IF cs # <<>> /\ cs[Len(cs)] = "\n" THEN Len(cs) - 1 ELSE Len(cs) IN
      \E a \in 2..n, d \in 2..n :
          /\ cs[a] = "@"
          /\ \A i \in 1..(a - 1) : cs[i] \in WordDotDash
          /\ d > a + 1
          /\ cs[d] = "."
          /\ \A i \in (a + 1)..(d - 1) : cs[i] \in WordDotDash
          /\ d < n
          /\ \A i \in (d + 1)..n : cs[i] \in WordChars

\* regex-match: a pattern that does not compile raises inside the rule.
regex_match(rule, text) ==
    CASE rule.pattern = MalformedPattern ->
           RuleRaise("missing ), unterminated subpattern at position 0")
      [] rule.pattern = EmailPattern /\ rule.flags = 0 ->
           IF MatchesEmail(text.chars) THEN RulePass
           ELSE RuleFail("Response does not match the pattern")

\* The functions given to CustomValidator.
CustomFunctions == {"validate_no_profanity", "raising_predicate"}

(* The texts and keywords of validation_examples.py, by their characters *)

\* line 29: "This is a valid response that meets the criteria."
TextValid ==
    <<"T", "h", "i", "s", " ", "i", "s", " ", "a", " ", "v", "a", "l", "i",
      "d", " ", "r", "e", "s", "p", "o", "n", "s", "e", " ", "t", "h", "a",
      "t", " ", "m", "e", "e", "t", "s", " ", "t", "h", "e", " ", "c", "r",
      "i", "t", "e", "r", "i", "a", ".">>

\* line 33: "Short"
TextShort ==
    <<"S", "h", "o", "r", "t">>

\* line 37: ""
TextEmpty ==
    <<>>

\* line 51: '{"name": "John", "age": 30}'
TextJohnAge ==
    <<"{", "\"", "n", "a", "m", "e", "\"", ":", " ", "\"", "J", "o", "h",
      "n", "\"", ",", " ", "\"", "a", "g", "e", "\"", ":", " ", "3", "0",
      "}">>

\* line 55: '{"name": "John", "age": 30'
TextJohnTruncated ==
    <<"{", "\"", "n", "a", "m", "e", "\"", ":", " ", "\"", "J", "o", "h",
      "n", "\"", ",", " ", "\"", "a", "g", "e", "\"", ":", " ", "3", "0">>

\* line 73: '{"name": "John", "age": 30, "email": "john@example.com"}'
TextJohnFull ==
    <<"{", "\"", "n", "a", "m", "e", "\"", ":", " ", "\"", "J", "o", "h",
      "n", "\"", ",", " ", "\"", "a", "g", "e", "\"", ":", " ", "3", "0",
      ",", " ", "\"", "e", "m", "a", "i", "l", "\"", ":", " ", "\"", "j",
      "o", "h", "n", "@", "e", "x", "a", "m", "p", "l", "e", ".", "c", "o",
      "m", "\"", "}">>

\* line 81: '{"name": "John", "age": "thirty", "email": "john@example.com"}'
TextJohnThirty ==
    <<"{", "\"", "n", "a", "m", "e", "\"", ":", " ", "\"", "J", "o", "h",
      "n", "\"", ",", " ", "\"", "a", "g", "e", "\"", ":", " ", "\"", "t",
      "h", "i", "r", "t", "y", "\"", ",", " ", "\"", "e", "m", "a", "i",
      "l", "\"", ":", " ", "\"", "j", "o", "h", "n", "@", "e", "x", "a",
      "m", "p", "l", "e", ".", "c", "o", "m", "\"", "}">>

\* line 99: "Python is a great programming language."
TextPython ==
    <<"P", "y", "t", "h", "o", "n", " ", "i", "s", " ", "a", " ", "g", "r",
      "e", "a", "t", " ", "p", "r", "o", "g", "r", "a", "m", "m", "i", "n",
      "g", " ", "l", "a", "n", "g", "u", "a", "g", "e", ".">>

\* line 103: "This is about something else entirely."
TextSomethingElse ==
    <<"T", "h", "i", "s", " ", "i", "s", " ", "a", "b", "o", "u", "t", " ",
      "s", "o", "m", "e", "t", "h", "i", "n", "g", " ", "e", "l", "s", "e",
      " ", "e", "n", "t", "i", "r", "e", "l", "y", ".">>

\* line 121: "user@example.com"
TextEmail ==
    <<"u", "s", "e", "r", "@", "e", "x", "a", "m", "p", "l", "e", ".", "c",
      "o", "m">>

\* line 125: "not-an-email"
TextNotEmail ==
    <<"n", "o", "t", "-", "a", "n", "-", "e", "m", "a", "i", "l">>

\* line 150: "This is a clean response."
TextClean ==
    <<"T", "h", "i", "s", " ", "i", "s", " ", "a", " ", "c", "l", "e", "a",
      "n", " ", "r", "e", "s", "p", "o", "n", "s", "e", ".">>

\* line 174: '{"status": "success", "message": "Operation completed successfully"}'
TextStatusFull ==
    <<"{", "\"", "s", "t", "a", "t", "u", "s", "\"", ":", " ", "\"", "s",
      "u", "c", "c", "e", "s", "s", "\"", ",", " ", "\"", "m", "e", "s",
      "s", "a", "g", "e", "\"", ":", " ", "\"", "O", "p", "e", "r", "a",
      "t", "i", "o", "n", " ", "c", "o", "m", "p", "l", "e", "t", "e", "d",
      " ", "s", "u", "c", "c", "e", "s", "s", "f", "u", "l", "l", "y", "\"",
      "}">>

\* line 178: '{"status": "success"}'
TextStatusOnly ==
    <<"{", "\"", "s", "t", "a", "t", "u", "s", "\"", ":", " ", "\"", "s",
      "u", "c", "c", "e", "s", "s", "\"", "}">>

ExampleTexts ==
    { TextValid,
      TextShort,
      TextEmpty,
      TextJohnAge,
      TextJohnTruncated,
      TextJohnFull,
      TextJohnThirty,
      TextPython,
      TextSomethingElse,
      TextEmail,
      TextNotEmail,
      TextClean,
      TextStatusFull,
      TextStatusOnly }

\* Texts the examples do not have: white space only ('   '), a bad word in
\* capitals ('No BADWORD2 here'), JSON that is no object ('[1, 2]').
OtherCandidates ==
    { <<" ", " ", " ">>,
      <<"N", "o", " ", "B", "A", "D", "W", "O", "R", "D", "2", " ", "h", "e", "r", "e">>,
      <<"[", "1", ",", " ", "2", "]">> }

KwPython == <<"P", "y", "t", "h", "o", "n">>
KwProgramming == <<"p", "r", "o", "g", "r", "a", "m", "m", "i", "n", "g">>
KwCode == <<"c", "o", "d", "e">>
KwSuccess == <<"s", "u", "c", "c", "e", "s", "s">>
KwError == <<"e", "r", "r", "o", "r">>

\* bad_words of validate_no_profanity: 'badword1', 'badword2'.
BadWords ==
    << <<"b", "a", "d", "w", "o", "r", "d", "1">>,
       <<"b", "a", "d", "w", "o", "r", "d", "2">> >>

\* validate_no_profanity of validation_examples.py: (False, message) for the
\* first bad word found in the lowered text, else (True, None).
validate_no_profanity(response) ==
    LET response_lower == Lower(response.chars)
        found == {i \in 1..Len(BadWords) : IsSubstring(BadWords[i], response_lower)}
    IN IF found # {}
       THEN <<FALSE, PyStr("Response contains inappropriate content: "
                           \o Join(BadWords[Least(found)]))>>
       ELSE <<TRUE, PyNone>>

\* custom-predicate: the function's boolean is the rule's validity and its
\* message, if any, the error text; a function that raises makes the rule raise.
custom_predicate(rule, text) ==
    CASE rule.fn = "validate_no_profanity" ->
           LET r == validate_no_profanity(text) IN
             IF r[1] THEN RulePass
             ELSE RuleFail(IF r[2] = PyNone THEN "Custom validation failed" ELSE r[2].s)
      [] rule.fn = "raising_predicate" -> RuleRaise("predicate failed")

\* rule.validate(text): the outcome of one rule on the candidate text.
Evaluate(rule, text, stored) ==
    CASE rule.kind = "NotEmptyValidator" -> not_empty(text)
      [] rule.kind = "LengthValidator" -> length_bound(rule, text)
      [] rule.kind = "JSONValidator" -> well_formed_json(text)
      [] rule.kind = "JSONSchemaValidator" -> json_schema(rule, text, stored)
      [] rule.kind = "ContainsValidator" -> contains(rule, text)
      [] rule.kind = "RegexValidator" -> regex_match(rule, text)
      [] rule.kind = "CustomValidator" -> custom_predicate(rule, text)

\* The error the chain records for a rule that did not pass: the rule's
\* message, or for a rule that raised the failure under the rule's name.
ErrorText(rule, outcome) ==
    IF outcome.status = "raise" THEN rule.kind \o ": " \o outcome.msg ELSE outcome.msg

\* A bug: a rule that raises is passed over without a trace.
run_rule_swallows_raise(rule, text, stored) ==
    LET outcome == Evaluate(rule, text, stored) IN
      [passed |-> outcome.status # "fail",
       error |-> outcome.msg,
       parsed |-> IF rule.kind = "JSONValidator" /\ outcome.status = "pass"
                  THEN loads_chars(text).val ELSE stored]

\* One turn of the chain's loop: the rule is run inside try; what it raises
\* is caught and recorded as this rule's error.  The JSON rule stores the
\* value it parsed for the rules after it.
run_rule(rule, text, stored) ==
    LET outcome == Evaluate(rule, text, stored) IN
      [passed |-> outcome.status = "pass",
       error |-> ErrorText(rule, outcome),
       parsed |-> IF rule.kind = "JSONValidator" /\ outcome.status = "pass"
                  THEN loads_chars(text).val ELSE stored]

(* Inputs of the validator chain: the validators, chains and texts of       *)
(* validation_examples.py, and beside them short chains and texts that      *)
(* reach the rules' other outcomes                                          *)

MaxRules == 2

\* The validators of the examples.  ContainsValidator is given no
\* case_sensitive in example_combined_validation; it is taken as False.
SchemaJohn ==
    JSONSchemaValidator(<<"name", "age", "email">>,
                        << <<"name", "str">>, <<"age", "int">>, <<"email", "str">> >>)
SchemaStatus ==
    JSONSchemaValidator(<<"status", "message">>,
                        << <<"status", "str">>, <<"message", "str">> >>)
ContainsPython == ContainsValidator(<<KwPython, KwProgramming, KwCode>>, FALSE, FALSE)
ContainsSuccess == ContainsValidator(<<KwSuccess, KwError>>, FALSE, FALSE)

\* The chains the examples build.
ExampleChains ==
    { <<NotEmptyValidator, LengthValidator(PyInt(10), PyInt(200))>>,
      <<NotEmptyValidator, JSONValidator>>,
      <<NotEmptyValidator, JSONValidator, SchemaJohn>>,
      <<NotEmptyValidator, ContainsPython>>,
      <<NotEmptyValidator, RegexValidator(EmailPattern, 0)>>,
      <<NotEmptyValidator, CustomValidator("validate_no_profanity")>>,
      <<NotEmptyValidator, LengthValidator(PyInt(20), PyInt(1000)), JSONValidator,
        SchemaStatus, ContainsSuccess>> }

\* The validators the examples construct.
ExampleRules ==
    { NotEmptyValidator,
      LengthValidator(PyInt(10), PyInt(200)),
      LengthValidator(PyInt(20), PyInt(1000)),
      JSONValidator,
      SchemaJohn,
      SchemaStatus,
      ContainsPython,
      ContainsSuccess,
      RegexValidator(EmailPattern, 0),
      CustomValidator("validate_no_profanity") }

\* Rules the examples do not construct: the two that raise.
OtherRules ==
    { RegexValidator(MalformedPattern, 0),
      CustomValidator("raising_predicate") }

Rules == ExampleRules \cup OtherRules

\* A chain for the parameters the examples leave out: an absent bound, and
\* every keyword required with regard to case.
OtherChains ==
    { <<LengthValidator(PyNone, PyInt(5)),
        ContainsValidator(<<KwPython, KwCode>>, TRUE, TRUE)>> }

\* The chains of the model: those of the examples, and every chain of at
\* most MaxRules rules.
RuleChains ==
    ExampleChains \cup OtherChains \cup UNION {[1..n -> Rules] : n \in 0..MaxRules}

CandidateTexts == {PyChars(cs) : cs \in ExampleTexts \cup OtherCandidates}

(* The chain's validate *)

\* A caller calls ResponseValidator(rules).validate(text): errors = [].
validate_call(rs, text) ==
    /\ pc = "idle"
    /\ op' = "validate"
    /\ pc' = "validating"
    /\ rules' = rs
    /\ candidate' = text
    /\ idx' = 0
    /\ errors' = <<>>
    /\ parsed' = Unset
    /\ UNCHANGED ret
    /\ UNCHANGED judgment_vars

\* A bug: the chain stops at the first rule that does not pass.
validate_rule_short_circuit ==
    /\ pc = "validating"
    /\ op = "validate"
    /\ idx < Len(rules)
    /\ LET r == run_rule(rules[idx + 1], candidate, parsed) IN
         /\ errors' = IF r.passed THEN errors ELSE Append(errors, r.error)
         /\ parsed' = r.parsed
         /\ idx' = IF r.passed THEN idx + 1 ELSE Len(rules)
    /\ UNCHANGED <<op, pc, rules, candidate, ret>>
    /\ UNCHANGED judgment_vars

\* for rule in rules: the next rule is run on the text, whatever the rules
\* before it found.
validate_rule ==
    /\ pc = "validating"
    /\ op = "validate"
    /\ idx < Len(rules)
    /\ LET r == run_rule(rules[idx + 1], candidate, parsed) IN
         /\ errors' = IF r.passed THEN errors ELSE Append(errors, r.error)
         /\ parsed' = r.parsed
    /\ idx' = idx + 1
    /\ UNCHANGED <<op, pc, rules, candidate, ret>>
    /\ UNCHANGED judgment_vars

\* The loop is exhausted: the report is returned.
validate_return ==
    /\ pc = "validating"
    /\ op = "validate"
    /\ idx = Len(rules)
    /\ ret' = [is_valid |-> errors = <<>>, errors |-> errors]
    /\ pc' = "done"
    /\ UNCHANGED <<op, idx, rules, candidate, errors, parsed>>
    /\ UNCHANGED judgment_vars

ValidatorNext ==
    \/ pc = "idle" /\ \E rs \in RuleChains, text \in CandidateTexts : validate_call(rs, text)
    \/ validate_rule
    \/ validate_return

ValidatorSpec == Init /\ [][ValidatorNext]_vars

----------------------------------------------------------------------------
(* What the claims speak of, read off the text and the returned values *)

IsJudgeOp == op \in {"judge", "judge_multiple"}

\* The positions of the opening and of the closing braces of a text.
OpenAt(toks) == {i \in 1..Len(toks) : IsP(toks[i], "{")}
CloseAt(toks) == {i \in 1..Len(toks) : IsP(toks[i], "}")}
MinOf(set) == CHOOSE i \in set : \A j \in set : i <= j
MaxOf(set) == CHOOSE i \in set : \A j \in set : j <= i

\* Whether a first { stands before a last }.
HasBraceSpan(toks) ==
    OpenAt(toks) # {} /\ CloseAt(toks) # {} /\ MinOf(OpenAt(toks)) < MaxOf(CloseAt(toks))

\* The text from the first { to the last }, both included.
BraceSpan(toks) == PyText(SubSeq(toks, MinOf(OpenAt(toks)), MaxOf(CloseAt(toks))))

IsText(v) == v.t = "str" /\ "toks" \in DOMAIN v

StrictOk(v) == IsText(v) /\ json_loads(v).ok
FallbackOk(v) ==
    IsText(v) /\ ~json_loads(v).ok /\ HasBraceSpan(v.toks) /\ json_loads(BraceSpan(v.toks)).ok
Unparseable(v) ==
    IsText(v) /\ ~json_loads(v).ok /\ ~(HasBraceSpan(v.toks) /\ json_loads(BraceSpan(v.toks)).ok)

\* The JSON value the two stages find in a text that parses.
ParsedOf(v) == IF StrictOk(v) THEN json_loads(v).val ELSE json_loads(BraceSpan(v.toks)).val

\* The text parses, strictly or via the fallback, to a JSON object.
ParsesToObject(v) == (StrictOk(v) \/ FallbackOk(v)) /\ ParsedOf(v).t = "dict"

\* The score of the object is at least ps: an absent score counts as 0, and
\* a score that is no number is not at least anything.
ScoreAtLeast(obj, ps) ==
    IF "score" \notin DOMAIN obj.m THEN 0 >= ps
    ELSE IsNumber(obj.m["score"]) /\ NumVal(obj.m["score"]) >= ps

\* The judge's own opinion: its "passed" field taken as a truth value, and
\* the threshold check when it gives none.
OpinionOf(obj, ps) ==
    IF "passed" \in DOMAIN obj.m THEN Truthy(obj.m["passed"]) ELSE ScoreAtLeast(obj, ps)

\* judge has returned to its caller.
JudgeDone == op = "judge" /\ pc = "done"

----------------------------------------------------------------------------
(* C1 *)

\* C1: whenever the judge's text parses, strictly or via the fallback, to a
\* JSON object, the returned passed is the conjunction of the judge's own
\* opinion and score >= passing_score; an explicit false with a score at or
\* above the threshold gives false, and so does an explicit true with a
\* score below it.
C1_PassedIsOpinionAndThreshold ==
    (JudgeDone /\ ParsesToObject(raw)) =>
        LET obj == ParsedOf(raw) IN
          /\ Truthy(ret.passed) = (OpinionOf(obj, passing_score) /\ ScoreAtLeast(obj, passing_score))
          /\ ("passed" \in DOMAIN obj.m /\ obj.m["passed"] = PyBool(FALSE)
                /\ ScoreAtLeast(obj, passing_score)) => ret.passed = PyBool(FALSE)
          /\ ("passed" \in DOMAIN obj.m /\ obj.m["passed"] = PyBool(TRUE)
                /\ ~ScoreAtLeast(obj, passing_score)) => ret.passed = PyBool(FALSE)

\* The judge vetoes a score of 85 against a threshold of 70.
C1_Witness ==
    /\ JudgeDone /\ ParsesToObject(raw)
    /\ passing_score = 70
    /\ ParsedOf(raw).m = [score |-> PyInt(85), passed |-> PyBool(FALSE)]
    /\ ret.passed = PyBool(FALSE)
    /\ ret.score = PyInt(85)

----------------------------------------------------------------------------
(* C2 *)

\* A returned dictionary does not pass with a score below ps.
SafeVerdict(v, ps) ==
    Truthy(v.passed) => (IsNumber(v.score) /\ NumVal(v.score) >= ps)

\* C2: no verdict of judge, on any path and for any passing_score, has
\* passed true together with a score below passing_score.
C2_NoPassBelowThreshold ==
    /\ (IsJudgeOp /\ pc \in {"reconciled", "failed"}) => SafeVerdict(verdict, passing_score)
    /\ JudgeDone => SafeVerdict(ret, passing_score)
    /\ op = "judge_multiple" =>
         \A i \in 1..Len(results) : SafeVerdict(results[i], passing_score)

\* A judge that says passed with a score below the threshold is overruled.
C2_Witness ==
    /\ JudgeDone /\ ParsesToObject(raw)
    /\ Get(ParsedOf(raw), "passed", PyNone) = PyBool(TRUE)
    /\ Get(ParsedOf(raw), "score", PyNone) = PyInt(50)
    /\ passing_score = 70
    /\ ret.passed = PyBool(FALSE)

----------------------------------------------------------------------------
(* C3 *)

\* The dictionary a failed call must turn into.
IsFailureVerdict(v, msg) ==
    /\ "error" \in DOMAIN v /\ v.error = msg
    /\ "score" \in DOMAIN v /\ v.score = PyInt(0)
    /\ "passed" \in DOMAIN v /\ v.passed = PyBool(FALSE)

\* C3: when the call to the judge model raises, judge returns normally a
\* verdict with score 0, passed false and the failure description in its
\* error field; judge and judge_multiple go on to return.
C3_CallFailureBecomesVerdict ==
    IsJudgeOp =>
      \A i \in 1..Len(calls) :
        (calls[i].reply # Unset /\ calls[i].reply.kind = "raise") =>
          /\ op = "judge" => pc \in {"failed", "done"}
          /\ op = "judge_multiple" => (i <= Len(results) \/ (i = Len(calls) /\ pc = "failed"))
          /\ (op = "judge" /\ pc = "failed") => IsFailureVerdict(verdict, calls[i].reply.msg)
          /\ (op = "judge" /\ pc = "done") => IsFailureVerdict(ret, calls[i].reply.msg)
          /\ (op = "judge_multiple" /\ i = Len(calls) /\ pc = "failed")
               => IsFailureVerdict(verdict, calls[i].reply.msg)
          /\ (op = "judge_multiple" /\ i <= Len(results))
               => IsFailureVerdict(results[i], calls[i].reply.msg)
          /\ (op = "judge_multiple" /\ pc = "done")
               => (i <= Len(ret) /\ IsFailureVerdict(ret[i], calls[i].reply.msg))

\* judge has returned after a failed call.
C3_Witness ==
    /\ JudgeDone
    /\ Len(calls) = 1 /\ calls[1].reply.kind = "raise"
    /\ ret = [error |-> "Connection error.", passed |-> PyBool(FALSE), score |-> PyInt(0)]

----------------------------------------------------------------------------
(* C4 *)

\* C4: the judge's text is parsed strictly first; only when that fails, the
\* text from the first { to the last } is parsed; only when that fails too,
\* or no { stands before a }, the default structure is used.  The example
\* object wrapped in prose is found by the second stage.
C4_TwoStageParse ==
    IsJudgeOp =>
      /\ pc = "parsed_strict" => (StrictOk(raw) /\ judgment = json_loads(raw).val)
      /\ pc = "strict_failed" => (IsText(raw) /\ ~json_loads(raw).ok /\ judgment = Unset)
      /\ pc = "parsed_fallback" =>
           (FallbackOk(raw) /\ judgment = json_loads(BraceSpan(raw.toks)).val)
      /\ pc = "parse_failed" =>
           /\ Unparseable(raw)
           /\ judgment = PyDict([score |-> PyInt(0),
                                 passed |-> PyBool(FALSE),
                                 feedback |-> PyStr("Failed to parse judge response"),
                                 raw_text |-> raw])
      /\ (pc \in {"parsed_strict", "parsed_fallback", "parse_failed"}
            /\ raw = PyText(WrappedExample)) =>
           /\ pc = "parsed_fallback"
           /\ judgment = PyDict([score |-> PyInt(90), passed |-> PyBool(TRUE)])
      /\ (pc \in {"reconciled", "failed", "done"} /\ IsText(raw) /\ "judgment" \in DOMAIN verdict) =>
           verdict.judgment =
             IF StrictOk(raw) \/ FallbackOk(raw) THEN ParsedOf(raw)
             ELSE PyDict([score |-> PyInt(0),
                          passed |-> PyBool(FALSE),
                          feedback |-> PyStr("Failed to parse judge response"),
                          raw_text |-> raw])

\* The wrapped example went through the fallback and was reconciled.
C4_Witness ==
    /\ JudgeDone
    /\ raw = PyText(WrappedExample)
    /\ ret.score = PyInt(90)
    /\ ret.judgment = PyDict([score |-> PyInt(90), passed |-> PyBool(TRUE)])
    /\ passing_score = 70 /\ ret.passed = PyBool(TRUE)

----------------------------------------------------------------------------
(* C5 *)

\* C5: a text that neither stage can parse does not end the judgment: judge
\* reconciles the default structure and returns score 0, passed false and a
\* non-empty feedback, for every passing_score.
C5_ParseFailureDegrades ==
    /\ (IsJudgeOp /\ pc \in {"reconciled", "failed"} /\ Unparseable(raw)) =>
         /\ pc = "reconciled"
         /\ verdict.score = PyInt(0)
         /\ verdict.passed = PyBool(FALSE)
         /\ verdict.feedback.t = "str" /\ Truthy(verdict.feedback)
    /\ (JudgeDone /\ Unparseable(raw)) =>
         /\ "error" \notin DOMAIN ret
         /\ ret.score = PyInt(0)
         /\ ret.passed = PyBool(FALSE)
         /\ ret.feedback.t = "str" /\ Truthy(ret.feedback)

\* An unparseable text judged against a threshold of 0 or less.
C5_Witness ==
    /\ JudgeDone
    /\ raw = PyText(<<W("I cannot judge this.")>>)
    /\ passing_score <= 0
    /\ ret.score = PyInt(0) /\ ret.passed = PyBool(FALSE)
    /\ ret.feedback = PyStr("Failed to parse judge response")

----------------------------------------------------------------------------
(* C6 *)

\* The score of the object is absent, a string or null.
ScoreAbsentOrNonNumeric(obj) ==
    "score" \notin DOMAIN obj.m \/ obj.m["score"].t \in {"str", "NoneType"}

\* C6: when the parsed judgment has no score, or a score that is a string or
\* null, the returned score is 0 and the verdict is a normal reconciled one,
\* with judgment, raw_response and feedback.
C6_ScoreDefaultsToZero ==
    (JudgeDone /\ ParsesToObject(raw) /\ ScoreAbsentOrNonNumeric(ParsedOf(raw))) =>
        /\ ret.score = PyInt(0)
        /\ {"judgment", "raw_response", "feedback"} \subseteq DOMAIN ret

----------------------------------------------------------------------------
(* C7 *)

\* C7: when the parsed judgment has no passed field, the returned passed is
\* score >= passing_score: false for a score of 50 against 70, true for a
\* score at or above the threshold.
C7_AbsentOpinionIsThreshold ==
    (JudgeDone /\ ParsesToObject(raw) /\ "passed" \notin DOMAIN ParsedOf(raw).m) =>
        ret.passed = PyBool(ScoreAtLeast(ParsedOf(raw), passing_score))

\* A score at the threshold with no opinion passes.
C7_Witness ==
    /\ JudgeDone /\ ParsesToObject(raw)
    /\ ParsedOf(raw).m = [score |-> PyInt(70)]
    /\ passing_score = 70
    /\ ret.passed = PyBool(TRUE)

----------------------------------------------------------------------------
(* C8 *)

\* C8: judge with judge_type CUSTOM and no criteria raises a configuration
\* error to its caller; it does not return a verdict.
C8_CustomWithoutCriteriaRaises ==
    (op = "judge" /\ judge_type = "custom" /\ ~Truthy(criteria)) => pc # "done"

----------------------------------------------------------------------------
(* C9 *)

\* What judge returns given the reply of the judge model: lines 222-250.
judge_outcome(reply, jtype, ps) ==
    IF reply.kind = "raise" THEN ExceptVerdict(reply.msg)
    ELSE IF reply.content = PyNone THEN ExceptVerdict(LoadsNoneMessage)
    ELSE IF json_loads(reply.content).ok
      THEN reconcile(json_loads(reply.content).val, reply.content, jtype, ps)
    ELSE reconcile(extract_json_from_text(reply.content), reply.content, jtype, ps)

\* What judge returns for the i-th response of the running judge_multiple.
SingleJudgment(i) ==
    LET pr == get_judge_prompt(original_prompt, responses[i], judge_type, criteria)
    IN IF pr.exc THEN ExceptVerdict(pr.msg)
       ELSE judge_outcome(calls[i].reply, judge_type, passing_score)

\* C9: judge_multiple returns one verdict for each response, in the order of
\* the responses, the i-th being what judge returns for the i-th response
\* with the same prompt, judge_type, criteria and passing_score; a failed or
\* unparseable judgment leaves the others in place.
C9_BatchIsJudgePerResponse ==
    /\ op = "judge_multiple" =>
         /\ Len(results) <= Len(responses)
         /\ \A i \in 1..Len(results) :
              /\ results[i] = SingleJudgment(i)
              /\ calls # <<>> =>
                   calls[i].prompt = get_judge_prompt(original_prompt, responses[i],
                                                      judge_type, criteria).val
    /\ (op = "judge_multiple" /\ pc = "done") =>
         /\ Len(ret) = Len(responses)
         /\ \A i \in 1..Len(ret) : ret[i] = SingleJudgment(i)
    /\ JudgeDone => ret = SingleJudgment(1)

\* Two responses judged: the first call failed, the second verdict passed.
C9_Witness ==
    /\ op = "judge_multiple" /\ pc = "done"
    /\ Len(responses) = 2 /\ responses[1] # responses[2]
    /\ Len(ret) = 2
    /\ "error" \in DOMAIN ret[1]
    /\ "error" \notin DOMAIN ret[2] /\ ret[2].passed = PyBool(TRUE)

----------------------------------------------------------------------------
(* C10 *)

CompareDone == op = "compare_responses" /\ pc = "done"

\* C10: compare_responses parses with the strict-then-fallback strategy: a
\* JSON object wrapped in prose is recovered from the first { to the last },
\* and its winner and scores are returned instead of an error result.
C10_CompareUsesFallback ==
    (CompareDone /\ FallbackOk(raw) /\ ParsedOf(raw).t = "dict") =>
        /\ "error" \notin DOMAIN ret
        /\ ret.winner = Get(ParsedOf(raw), "winner", PyNone)
        /\ ret.response1_score = Get(ParsedOf(raw), "response1_score", PyInt(0))
        /\ ret.response2_score = Get(ParsedOf(raw), "response2_score", PyInt(0))

----------------------------------------------------------------------------
(* C11 *)

\* The comparison failed: the call raised, there is no text, the text is no
\* JSON, or it is JSON and no object.
CompareFailure ==
    \/ calls[1].reply.kind = "raise"
    \/ raw = PyNone
    \/ (IsText(raw) /\ ~json_loads(raw).ok)
    \/ (StrictOk(raw) /\ json_loads(raw).val.t # "dict")

\* C11: compare_responses does not raise; when the call fails or the judge's
\* output is malformed or no JSON object, it returns a result with winner
\* None and an error field holding the description of the failure.
C11_CompareFailureIsErrorResult ==
    /\ (op = "compare_responses" /\ pc = "failed") =>
         ("winner" \in DOMAIN verdict /\ verdict.winner = PyNone /\ "error" \in DOMAIN verdict)
    /\ (CompareDone /\ CompareFailure) =>
         /\ DOMAIN ret = {"error", "winner"}
         /\ ret.winner = PyNone
         /\ ret.error # ""

\* Malformed output: prose where JSON was asked for.
C11_Witness ==
    /\ CompareDone
    /\ raw = PyText(<<W("I cannot judge this.")>>)
    /\ ret.winner = PyNone
    /\ ret.error = "Expecting value: line 1 column 1 (char 0)"

----------------------------------------------------------------------------
(* C12 *)

\* C12: every result judge returns, on every path, carries the fields
\* score, passed, feedback, judgment and raw_response.
C12_ResultHasAllFields ==
    JudgeDone => {"score", "passed", "feedback", "judgment", "raw_response"} \subseteq DOMAIN ret

----------------------------------------------------------------------------
(* C13 *)

\* C13: the passed field of every verdict judge returns is a boolean,
\* whatever the judge put in its own passed field.
C13_PassedIsBoolean ==
    JudgeDone => ret.passed.t = "bool"

----------------------------------------------------------------------------
(* C14 *)

\* C14: the winner of every result of compare_responses is 1, 2 or None, and
\* None only together with an error field.
C14_WinnerIsOneTwoOrNone ==
    CompareDone =>
        /\ ret.winner \in {PyInt(1), PyInt(2), PyNone}
        /\ ret.winner = PyNone => "error" \in DOMAIN ret

----------------------------------------------------------------------------
(* C18 *)

\* The judge's reply holds no JSON object: no text at all, or JSON that is a
\* list, a number, a string, a boolean or null.
NoObjectReply(v) ==
    v = PyNone \/ ((StrictOk(v) \/ FallbackOk(v)) /\ ParsedOf(v).t # "dict")

\* C18: when the judge's text is JSON and no object, or there is no text,
\* judge returns a verdict with score 0, passed false and an error field.
C18_NonObjectIsErrorVerdict ==
    (JudgeDone /\ Len(calls) = 1 /\ calls[1].reply.kind = "content" /\ NoObjectReply(raw)) =>
        /\ "error" \in DOMAIN ret
        /\ ret.score = PyInt(0)
        /\ ret.passed = PyBool(FALSE)

\* An empty JSON array judged against a threshold of 0 or less.
C18_Witness ==
    /\ JudgeDone
    /\ raw = PyText(<<P("["), P("]")>>)
    /\ passing_score <= 0
    /\ ret = [error |-> "'list' object has no attribute 'get'",
              passed |-> PyBool(FALSE), score |-> PyInt(0)]

----------------------------------------------------------------------------
(* C19 *)

\* The prompt cannot be built: CUSTOM without criteria.
PromptFails == get_judge_prompt(original_prompt, "", judge_type, criteria).exc

\* The original statement of C19: exactly one call per judgment, whatever
\* the arguments.
C19_ExactlyOneCall ==
    /\ (JudgeDone \/ CompareDone) => Len(calls) = 1
    /\ (op = "judge_multiple" /\ pc = "done") => Len(calls) = Len(responses)

\* C19: a judgment makes at most one call to the judge model and never
\* repeats one: judge makes exactly one call unless the judge type is CUSTOM
\* without criteria, when it makes none; compare_responses makes exactly one;
\* judge_multiple makes its calls one after the other, the i-th for the i-th
\* response, N of them in all (none for CUSTOM without criteria).
C19_OneCallPerJudgment ==
    /\ op = "judge" =>
         /\ Len(calls) <= 1
         /\ pc \in {"requested", "replied", "strict_failed", "parsed_strict",
                    "parsed_fallback", "parse_failed", "reconciled"} => Len(calls) = 1
         /\ pc = "done" => Len(calls) = (IF PromptFails THEN 0 ELSE 1)
         /\ \A i \in 1..Len(calls) :
              calls[i].prompt = get_judge_prompt(original_prompt, responses[1],
                                                 judge_type, criteria).val
    /\ op = "compare_responses" =>
         /\ Len(calls) <= 1
         /\ pc \notin {"idle", "pending"} => Len(calls) = 1
         /\ \A i \in 1..Len(calls) :
              calls[i].prompt = comparison_prompt(original_prompt, responses[1],
                                                  responses[2], criteria)
    /\ op = "judge_multiple" =>
         /\ Len(calls) <= idx
         /\ PromptFails => Len(calls) = 0
         /\ (~PromptFails /\ pc \notin {"pending"}) => Len(calls) = idx
         /\ pc = "done" => Len(calls) = (IF PromptFails THEN 0 ELSE Len(responses))
         /\ \A i \in 1..Len(calls) :
              /\ calls[i].prompt = get_judge_prompt(original_prompt, responses[i],
                                                    judge_type, criteria).val
              /\ i < Len(calls) => calls[i].reply # Unset

\* Two different responses were judged in order, the first call having
\* failed without being repeated.
C19_Witness ==
    /\ op = "judge_multiple"
    /\ pc = "done"
    /\ Len(responses) = 2
    /\ responses[1] # responses[2]
    /\ Len(calls) = 2
    /\ calls[1].reply.kind = "raise"
    /\ calls[2].reply.kind = "content"

----------------------------------------------------------------------------
(* C17 *)

\* The outcomes of parsing.
ParseOutcomes == {"parsed_strict", "parsed_fallback", "parse_failed"}

\* The steps the position of a judgment may take: PENDING, REQUESTED, a parse
\* outcome, RECONCILED, with the except clause ("failed") as the way out of
\* every stage, and the return to the caller at the end.
JudgmentOrder ==
    {<<"idle", "pending">>,
     <<"pending", "requested">>, <<"pending", "failed">>,
     <<"requested", "replied">>, <<"requested", "failed">>,
     <<"replied", "parsed_strict">>, <<"replied", "strict_failed">>, <<"replied", "failed">>,
     <<"strict_failed", "parsed_fallback">>, <<"strict_failed", "parse_failed">>,
     <<"parsed_strict", "reconciled">>, <<"parsed_strict", "failed">>,
     <<"parsed_fallback", "reconciled">>, <<"parsed_fallback", "failed">>,
     <<"parse_failed", "reconciled">>,
     <<"reconciled", "done">>, <<"failed", "done">>}

\* One step of a judgment keeps the order.
JudgmentStepInOrder ==
    /\ <<pc, pc'>> \in JudgmentOrder
    \* parsing only after the request has returned a completion
    /\ pc' \in ParseOutcomes \cup {"strict_failed"} =>
         /\ Len(calls) = 1
         /\ calls[1].reply.kind = "content"
         /\ raw = calls[1].reply.content
    \* the fallback only after the strict parse has failed
    /\ pc' \in {"parsed_fallback", "parse_failed"} =>
         /\ pc = "strict_failed"
         /\ ~json_loads(raw).ok
    \* reconciliation only after a parse outcome
    /\ pc' = "reconciled" =>
         /\ pc \in ParseOutcomes
         /\ judgment # Unset

\* C17: every judge and compare_responses operation goes PENDING, REQUESTED,
\* one parse outcome, RECONCILED in this order: no parse before the request
\* has returned, no reconciliation before a parse outcome, the fallback only
\* after the strict parse failed; and every started operation returns a
\* result to its caller.
C17_JudgmentOrdering ==
    /\ [][JudgmentStepInOrder]_vars
    /\ (pc = "pending") ~> (pc = "done" /\ ret # Unset)

\* A judgment that went through the failed strict parse and the fallback to
\* a reconciled verdict.
C17_Witness ==
    /\ JudgeDone
    /\ IsText(raw)
    /\ ~StrictOk(raw)
    /\ FallbackOk(raw)
    /\ "error" \notin DOMAIN ret

----------------------------------------------------------------------------
(* C15 *)

ValidateDone == op = "validate" /\ pc = "done"

\* What each rule of the chain finds on the candidate text, run alone.
Outcomes == [i \in 1..Len(rules) |-> Evaluate(rules[i], candidate, Unset)]

\* The rules among the first n that do not pass, given the outcomes.
FailingUpTo(out, n) == {i \in 1..n : out[i].status # "pass"}

\* C15: validate runs every rule of the chain without stopping at a failure:
\* is_valid is true exactly when every rule passes, and errors holds one
\* message for each rule that does not pass, in the order of the rules.
C15_EveryRuleRunsAndReports ==
    LET out == Outcomes
        Failing == FailingUpTo(out, Len(rules))
    IN
    /\ (op = "validate" /\ pc = "validating") =>
         Len(errors) = Cardinality(FailingUpTo(out, idx))
    /\ ValidateDone =>
         /\ ret.is_valid = (Failing = {})
         /\ Len(ret.errors) = Cardinality(Failing)
         /\ \A i \in Failing :
              ret.errors[Cardinality(FailingUpTo(out, i))] = ErrorText(rules[i], out[i])

\* The empty text under the chain [not-empty, length 10..200]: both rules
\* fail and both are reported.
C15_Witness ==
    /\ ValidateDone
    /\ rules = <<NotEmptyValidator, LengthValidator(PyInt(10), PyInt(200))>>
    /\ candidate = PyChars(TextEmpty)
    /\ ret = [is_valid |-> FALSE,
              errors |-> <<"Response is empty", "Response is too short">>]

----------------------------------------------------------------------------
(* C16 *)

\* The rules of the chain that raise on the candidate text, given the outcomes.
RaisingIn(out) == {i \in DOMAIN out : out[i].status = "raise"}

\* C16: a rule that raises does not end the chain and validate does not
\* raise: the failure is recorded as an error under that rule's name,
\* is_valid is false, and the rules after it are run all the same.
C16_RaisingRuleIsRecorded ==
    LET out == Outcomes
        Raising == RaisingIn(out)
        Failing == FailingUpTo(out, Len(rules))
        Slot(i) == Cardinality(FailingUpTo(out, i))
    IN
    /\ (op = "validate" /\ pc = "validating") =>
         \A i \in Raising :
            i <= idx =>
              /\ Slot(i) <= Len(errors)
              /\ errors[Slot(i)] = rules[i].kind \o ": " \o out[i].msg
    /\ (ValidateDone /\ Raising # {}) =>
         /\ ret.is_valid = FALSE
         /\ \A i \in Raising :
              /\ Slot(i) <= Len(ret.errors)
              /\ ret.errors[Slot(i)] = rules[i].kind \o ": " \o out[i].msg
         /\ \A j \in Failing \ Raising :
              /\ Slot(j) <= Len(ret.errors)
              /\ ret.errors[Slot(j)] = out[j].msg

\* A predicate that raises, then a rule that fails: both are in the report.
C16_Witness ==
    /\ ValidateDone
    /\ rules = <<CustomValidator("raising_predicate"), NotEmptyValidator>>
    /\ candidate = PyChars(TextEmpty)
    /\ ret = [is_valid |-> FALSE,
              errors |-> <<"CustomValidator: predicate failed", "Response is empty">>]

====
